---- MODULE Spec2Model ----
(***************************************************************************)
(* A model of the claims risk detector (risk_detector.py) and of its two   *)
(* command-line drivers (detect_high_risk.py, run_risk_detection.py).      *)
(*                                                                         *)
(* A table (DataFrame) is a record [cols, rows]: cols is the set of column *)
(* names, rows a sequence of rows, a row a function from column names to   *)
(* cells.  A cell is the empty set (NaN / NaT / None) or a singleton       *)
(* holding the value.  A selection of rows of self.data (boolean-mask      *)
(* indexing) is the set of selected row positions, which is the pandas     *)
(* index the selection keeps.                                              *)
(*                                                                         *)
(* Numbers: paid amounts are integers and the float parameters are exact   *)
(* rationals <<numerator, denominator>>; means and standard deviations are *)
(* compared by cross-multiplication, so the model computes in exact        *)
(* arithmetic where the program computes in IEEE doubles.  Timestamps are  *)
(* integer ticks, TicksPerDay ticks to a day.                              *)
(***************************************************************************)
EXTENDS Integers, Sequences, FiniteSets, TLC

VARIABLES
    file,        \* the input spreadsheet as read_excel would deliver it
    args,        \* the options given to run_risk_detection.py
    environ,     \* os.environ: the threshold variables of the process
    data,        \* self.data
    results,     \* self.results
    pc,          \* where the driver stands
    calls,       \* the RiskDetector methods called so far: arguments and outcome
    ret,         \* what the last detector call returned
    summary,     \* the last summary report generate_summary_report built
    fuel,        \* calls the interactive driver may still make
    output_dir,  \* self.output_dir
    dirs         \* the directories that exist in the file system

vars == <<file, args, environ, data, results, pc, calls, ret, summary, fuel,
          output_dir, dirs>>

(***************************************************************************)
(* Bounds of the model.                                                    *)
(***************************************************************************)
MaxCalls == 2
MaxRows == 4
TicksPerDay == 2

(***************************************************************************)
(* Cells and small helpers.                                                *)
(***************************************************************************)
NaN == {}
Cell(v) == {v}
Val(c) == CHOOSE v \in c : TRUE

RECURSIVE SumOver(_, _)
SumOver(f, S) ==
    IF S = {} THEN 0
    ELSE LET i == CHOOSE j \in S : TRUE IN f[i] + SumOver(f, S \ {i})

MaxOver(f, S) == CHOOSE m \in {f[i] : i \in S} : \A i \in S : f[i] <= m

\* the injective sequences enumerating the finite set S
Perms(S) ==
    {p \in [1..Cardinality(S) -> S] : \A i, j \in DOMAIN p : i # j => p[i] # p[j]}

\* sign(a) * a^2 * r: strictly increasing in a for r > 0, so that
\* a * sqrt(r) > b * sqrt(q)  <=>  SgnSq(a, r) > SgnSq(b, q)
SgnSq(a, r) == IF a >= 0 THEN a * a * r ELSE 0 - (a * a * r)

(***************************************************************************)
(* Column names.                                                           *)
(***************************************************************************)
RawColumns ==
    {"VIN", "Paid Amount", "Selling Dealer", "Default Servicer", "RO Date",
     "Entry Date", "Claim #", "Vehicle", "Coverage"}
Columns == RawColumns \cup {"Brand"}

None == [tag |-> "None"]
DataFrame(cols, rows) == [tag |-> "DataFrame", cols |-> cols, rows |-> rows]
Index(df) == DOMAIN df.rows
Column(df, c) == [i \in Index(df) |-> df.rows[i][c]]

(***************************************************************************)
(* Return values.  A frame returned by a detector is a selection of rows   *)
(* of self.data (idx, with the columns the table had then) or a statistics *)
(* table (stats, a sequence of rows); pd.DataFrame() is EmptyFrame.        *)
(***************************************************************************)
EmptyFrame == [kind |-> "empty", cols |-> {}, idx |-> {}, stats |-> <<>>]
Selection(df, S) == [kind |-> "claims", cols |-> df.cols, idx |-> S, stats |-> <<>>]
StatsFrame(st) == [kind |-> "stats", cols |-> {}, idx |-> {}, stats |-> st]
StatsAndClaims(df, st, S) == [kind |-> "dict", cols |-> df.cols, idx |-> S, stats |-> st]
NoReturn == [kind |-> "none", cols |-> {}, idx |-> {}, stats |-> <<>>]
FrameLen(f) == IF f.kind \in {"stats", "dict"} THEN Len(f.stats) ELSE Cardinality(f.idx)

\* the outcome of a method call: the object after it, the value returned,
\* and the exception that escaped it ("" when none did)
Outcome(d, r, v, e) == [data |-> d, results |-> r, ret |-> v, error |-> e]
Put(r, k, v) == [x \in DOMAIN r \cup {k} |-> IF x = k THEN v ELSE r[x]]

(***************************************************************************)
(* _clean_data                                                             *)
(***************************************************************************)
\* the conversion that turns what does not parse into 0
Coerce_zero(c) ==
    IF c = NaN THEN NaN ELSE IF Val(c).parses THEN Cell(Val(c).value) ELSE Cell(0)

\* pd.to_datetime / pd.to_numeric with errors='coerce': a raw cell of these
\* columns holds [parses, value]; what does not parse becomes NaT / NaN
Coerce(c) == IF c = NaN \/ ~Val(c).parses THEN NaN ELSE Cell(Val(c).value)

dropna_all(df) ==
    DataFrame(df.cols,
              SelectSeq(df.rows, LAMBDA r : \E c \in df.cols : r[c] # NaN))

CoerceColumns(df, cs) ==
    DataFrame(df.cols,
              [i \in Index(df) |->
                  [c \in DOMAIN df.rows[i] |->
                      IF c \in cs /\ c \in df.cols THEN Coerce(df.rows[i][c])
                      ELSE df.rows[i][c]]])

fillna(df, fill) ==
    DataFrame(df.cols,
              [i \in Index(df) |->
                  [c \in DOMAIN df.rows[i] |->
                      IF c \in DOMAIN fill /\ c \in df.cols /\ df.rows[i][c] = NaN
                      THEN Cell(fill[c]) ELSE df.rows[i][c]]])

FillValues ==
    [c \in {"Paid Amount", "Selling Dealer", "Default Servicer"} |->
        IF c = "Paid Amount" THEN 0 ELSE "Unknown"]

_clean_data(raw) ==
    fillna(CoerceColumns(CoerceColumns(dropna_all(raw), {"RO Date", "Entry Date"}),
                         {"Paid Amount"}),
           FillValues)

(***************************************************************************)
(* groupby(col): the groups, keyed by the values present in col.  Rows     *)
(* whose key is NaN belong to no group (groupby's dropna=True).            *)
(***************************************************************************)
Keys(df, col) == {Val(df.rows[i][col]) : i \in {j \in Index(df) : df.rows[j][col] # NaN}}
Group(df, col, k) == {i \in Index(df) : df.rows[i][col] = Cell(k)}
isin(df, col, ks) == {i \in Index(df) : df.rows[i][col] # NaN /\ Val(df.rows[i][col]) \in ks}
Paid(df) == [i \in Index(df) |-> Val(df.rows[i]["Paid Amount"])]
\* Series.count / agg 'count': the non-null cells of col among the rows S
CountOf(df, col, S) == Cardinality({i \in S : df.rows[i][col] # NaN})
\* the count of a column's cells in place of its distinct values
nunique_count(df, col, S) == CountOf(df, col, S)

nunique(df, col, S) == Cardinality({Val(df.rows[i][col]) : i \in {j \in S : df.rows[j][col] # NaN}})

(***************************************************************************)
(* detect_multiple_claims_per_vin                                          *)
(***************************************************************************)
\* the detector with claim_count > threshold in place of >=
detect_multiple_claims_per_vin_gt(d, r, threshold) ==
    IF "VIN" \notin d.cols THEN Outcome(d, r, NoReturn, "KeyError")
    ELSE
    LET vin_counts == [k \in Keys(d, "VIN") |-> Cardinality(Group(d, "VIN", k))]
        high_claim_vins == {k \in DOMAIN vin_counts : vin_counts[k] > threshold}
        result == Selection(d, isin(d, "VIN", high_claim_vins))
    IN  IF Cardinality(high_claim_vins) > 0
        THEN Outcome(d, Put(r, "multiple_claims_per_vin", result), result, "")
        ELSE Outcome(d, r, EmptyFrame, "")

detect_multiple_claims_per_vin(d, r, threshold) ==
    IF "VIN" \notin d.cols THEN Outcome(d, r, NoReturn, "KeyError")
    ELSE
    LET vin_counts == [k \in Keys(d, "VIN") |-> Cardinality(Group(d, "VIN", k))]
        high_claim_vins == {k \in DOMAIN vin_counts : vin_counts[k] >= threshold}
        result == Selection(d, isin(d, "VIN", high_claim_vins))
    IN  IF Cardinality(high_claim_vins) > 0
        THEN Outcome(d, Put(r, "multiple_claims_per_vin", result), result, "")
        ELSE Outcome(d, r, EmptyFrame, "")

(***************************************************************************)
(* detect_high_dollar_claims.  With n rows, S their sum and                *)
(* Q = sum (n*x - S)^2, the sample standard deviation is                   *)
(* sqrt(Q / (n^2 (n-1))); for n = 0 the mean, and for n <= 1 the standard  *)
(* deviation, is NaN, and a comparison with NaN is False.                  *)
(***************************************************************************)
SumSqDev(df) ==
    LET n == Len(df.rows)
        S == SumOver(Paid(df), Index(df))
    IN  SumOver([i \in Index(df) |-> (n * Paid(df)[i] - S) * (n * Paid(df)[i] - S)],
                Index(df))

\* the comparison with >= in place of >
AboveThreshold_ge(df, i, k) ==
    LET n == Len(df.rows)
        S == SumOver(Paid(df), Index(df))
    IN  /\ n > 1
        /\ SgnSq((n * Paid(df)[i] - S) * k[2], n - 1) >= SgnSq(k[1], SumSqDev(df))

\* the comparison with the standard error of the mean (std / sqrt(n)) in
\* place of the standard deviation
AboveThreshold_stderr(df, i, k) ==
    LET n == Len(df.rows)
        S == SumOver(Paid(df), Index(df))
    IN  /\ n > 1
        /\ SgnSq((n * Paid(df)[i] - S) * k[2], (n - 1) * n) > SgnSq(k[1], SumSqDev(df))

\* x > mean + (k[1]/k[2]) * std, for row i of df
AboveThreshold(df, i, k) ==
    LET n == Len(df.rows)
        S == SumOver(Paid(df), Index(df))
    IN  /\ n > 1
        /\ SgnSq((n * Paid(df)[i] - S) * k[2], n - 1) > SgnSq(k[1], SumSqDev(df))

\* the detector that leaves out the claims multiple_claims_per_vin has stored
detect_high_dollar_claims_unflagged(d, r, std_dev_threshold) ==
    IF "Paid Amount" \notin d.cols THEN Outcome(d, r, NoReturn, "KeyError")
    ELSE
    LET seen == IF "multiple_claims_per_vin" \in DOMAIN r
                THEN r["multiple_claims_per_vin"].idx ELSE {}
        high_dollar_claims ==
            Selection(d, {i \in Index(d) \ seen : AboveThreshold(d, i, std_dev_threshold)})
    IN  IF FrameLen(high_dollar_claims) > 0
        THEN Outcome(d, Put(r, "high_dollar_claims", high_dollar_claims),
                     high_dollar_claims, "")
        ELSE Outcome(d, r, EmptyFrame, "")

detect_high_dollar_claims(d, r, std_dev_threshold) ==
    IF "Paid Amount" \notin d.cols THEN Outcome(d, r, NoReturn, "KeyError")
    ELSE
    LET high_dollar_claims ==
            Selection(d, {i \in Index(d) : AboveThreshold(d, i, std_dev_threshold)})
    IN  IF FrameLen(high_dollar_claims) > 0
        THEN Outcome(d, Put(r, "high_dollar_claims", high_dollar_claims),
                     high_dollar_claims, "")
        ELSE Outcome(d, r, EmptyFrame, "")

(***************************************************************************)
(* detect_multiple_dealers_per_vin                                         *)
(***************************************************************************)
\* the detector counting a VIN's dealer cells (count) in place of its
\* distinct dealers (nunique)
detect_multiple_dealers_per_vin_count(d, r) ==
    IF "VIN" \notin d.cols \/ "Selling Dealer" \notin d.cols
    THEN Outcome(d, r, NoReturn, "KeyError")
    ELSE
    LET vin_dealer_counts ==
            [k \in Keys(d, "VIN") |-> CountOf(d, "Selling Dealer", Group(d, "VIN", k))]
        multi_dealer_vins == {k \in DOMAIN vin_dealer_counts : vin_dealer_counts[k] > 1}
        result == Selection(d, isin(d, "VIN", multi_dealer_vins))
    IN  IF Cardinality(multi_dealer_vins) > 0
        THEN Outcome(d, Put(r, "multiple_dealers_per_vin", result), result, "")
        ELSE Outcome(d, r, EmptyFrame, "")

\* the detector keeping every VIN that has a dealer (dealer_count > 0)
detect_multiple_dealers_per_vin_any(d, r) ==
    IF "VIN" \notin d.cols \/ "Selling Dealer" \notin d.cols
    THEN Outcome(d, r, NoReturn, "KeyError")
    ELSE
    LET vin_dealer_counts ==
            [k \in Keys(d, "VIN") |-> nunique(d, "Selling Dealer", Group(d, "VIN", k))]
        multi_dealer_vins == {k \in DOMAIN vin_dealer_counts : vin_dealer_counts[k] > 0}
        result == Selection(d, isin(d, "VIN", multi_dealer_vins))
    IN  IF Cardinality(multi_dealer_vins) > 0
        THEN Outcome(d, Put(r, "multiple_dealers_per_vin", result), result, "")
        ELSE Outcome(d, r, EmptyFrame, "")

detect_multiple_dealers_per_vin(d, r) ==
    IF "VIN" \notin d.cols \/ "Selling Dealer" \notin d.cols
    THEN Outcome(d, r, NoReturn, "KeyError")
    ELSE
    LET vin_dealer_counts ==
            [k \in Keys(d, "VIN") |-> nunique(d, "Selling Dealer", Group(d, "VIN", k))]
        multi_dealer_vins == {k \in DOMAIN vin_dealer_counts : vin_dealer_counts[k] > 1}
        result == Selection(d, isin(d, "VIN", multi_dealer_vins))
    IN  IF Cardinality(multi_dealer_vins) > 0
        THEN Outcome(d, Put(r, "multiple_dealers_per_vin", result), result, "")
        ELSE Outcome(d, r, EmptyFrame, "")

(***************************************************************************)
(* detect_repeated_claims_timeframe.  sort_values('RO Date') puts the rows *)
(* of a VIN in ascending date order with NaT last; its default algorithm   *)
(* is not stable, so the order among equal dates is any order: the caller  *)
(* of this operator passes the order the sort produced (sort[vin], one of  *)
(* SortedByDate).                                                          *)
(***************************************************************************)
\* the claims of a VIN left in any order (no sort)
SortedByDate_unsorted(d, S) == Perms(S)

SortedByDate(d, S) ==
    {p \in Perms(S) :
        \A i, j \in DOMAIN p :
            i < j =>
                LET a == d.rows[p[i]]["RO Date"]
                    b == d.rows[p[j]]["RO Date"]
                IN  /\ ~(a = NaN /\ b # NaN)
                    /\ (a # NaN /\ b # NaN) => Val(a) <= Val(b)}

MultiClaimVins(d) == {k \in Keys(d, "VIN") : Cardinality(Group(d, "VIN", k)) > 1}

\* the orders sort_values may produce, one per VIN with several claims
SortChoices(d) ==
    IF "VIN" \notin d.cols \/ "RO Date" \notin d.cols THEN {<<>>}
    ELSE {s \in [MultiClaimVins(d) -> UNION {SortedByDate(d, Group(d, "VIN", k)) :
                                                k \in MultiClaimVins(d)}] :
            \A k \in MultiClaimVins(d) : s[k] \in SortedByDate(d, Group(d, "VIN", k))}

\* (next_date - current_date).days of two timestamps, current <= next
Days(current_date, next_date) == (next_date - current_date) \div TicksPerDay

\* the scan that stops after the first pair, qualifying or not
RapidPair_first_only(d, vin_claims, days_threshold) ==
    \E i \in 1..(IF Len(vin_claims) > 1 THEN 1 ELSE 0) :
        LET current_date == d.rows[vin_claims[i]]["RO Date"]
            next_date == d.rows[vin_claims[i + 1]]["RO Date"]
        IN  /\ current_date # NaN
            /\ next_date # NaN
            /\ Days(Val(current_date), Val(next_date)) <= days_threshold

\* the scan of consecutive pairs of one VIN's sorted claims
RapidPair(d, vin_claims, days_threshold) ==
    \E i \in 1..(Len(vin_claims) - 1) :
        LET current_date == d.rows[vin_claims[i]]["RO Date"]
            next_date == d.rows[vin_claims[i + 1]]["RO Date"]
        IN  /\ current_date # NaN
            /\ next_date # NaN
            /\ Days(Val(current_date), Val(next_date)) <= days_threshold

detect_repeated_claims_timeframe(d, r, days_threshold, sort) ==
    IF "VIN" \notin d.cols THEN Outcome(d, r, NoReturn, "KeyError")
    ELSE IF MultiClaimVins(d) = {} THEN Outcome(d, r, EmptyFrame, "")
    ELSE IF "RO Date" \notin d.cols THEN Outcome(d, r, NoReturn, "KeyError")
    ELSE
    LET rapid_claim_vins ==
            {vin \in MultiClaimVins(d) : RapidPair(d, sort[vin], days_threshold)}
        result == Selection(d, isin(d, "VIN", rapid_claim_vins))
    IN  IF rapid_claim_vins # {}
        THEN Outcome(d, Put(r, "repeated_claims_timeframe", result), result, "")
        ELSE Outcome(d, r, EmptyFrame, "")

(***************************************************************************)
(* Grouped statistics (groupby(...).agg(...)): one row per key.            *)
(* claim_count is agg 'count' of the 'Claim #' column, avg_paid the mean   *)
(* of 'Paid Amount' as the pair <<sum, number of rows>>.                   *)
(***************************************************************************)
StatRow(d, col, k) ==
    LET g == Group(d, col, k)
    IN  [key |-> k,
         claim_count |-> CountOf(d, "Claim #", g),
         total_paid |-> SumOver(Paid(d), g),
         avg_paid |-> <<SumOver(Paid(d), g), Cardinality(g)>>,
         max_paid |-> MaxOver(Paid(d), g)]

\* the strings of the model in lexicographic order (groupby sorts its keys)
NameOrder == <<"D1", "D2", "D3", "Unknown">>
Rank(s) == CHOOSE i \in DOMAIN NameOrder : NameOrder[i] = s
SortedKeys(ks) ==
    CHOOSE p \in Perms(ks) : \A i, j \in DOMAIN p : i < j => Rank(p[i]) < Rank(p[j])

\* the sort with ascending=True
SortedByTotal_ascending(rows) ==
    {p \in Perms(rows) : \A i, j \in DOMAIN p : i < j => p[i].total_paid <= p[j].total_paid}

\* sort_values('total_paid', ascending=False): any order of the rows with
\* total_paid non-increasing (ties in any order)
SortedByTotal(rows) ==
    {p \in Perms(rows) : \A i, j \in DOMAIN p : i < j => p[i].total_paid >= p[j].total_paid}

(***************************************************************************)
(* detect_high_claims_per_dealer                                           *)
(***************************************************************************)
\* avg_paid >= overall_avg * amount_threshold_multiplier, with
\* overall_avg = S / n and the multiplier m[1] / m[2]
HighAverage(d, row, m) ==
    LET n == Len(d.rows)
        S == SumOver(Paid(d), Index(d))
    IN  row.avg_paid[1] * n * m[2] >= S * m[1] * row.avg_paid[2]

HighRiskDealer(d, row, count_threshold, amount_threshold_multiplier) ==
    \/ row.claim_count >= count_threshold
    \/ HighAverage(d, row, amount_threshold_multiplier)

detect_high_claims_per_dealer(d, r, count_threshold, amount_threshold_multiplier) ==
    IF {"Selling Dealer", "Claim #", "Paid Amount"} \ d.cols # {}
    THEN Outcome(d, r, NoReturn, "KeyError")
    ELSE
    LET keys == SortedKeys(Keys(d, "Selling Dealer"))
        dealer_stats == [i \in DOMAIN keys |-> StatRow(d, "Selling Dealer", keys[i])]
        high_risk_dealers ==
            SelectSeq(dealer_stats,
                      LAMBDA row : HighRiskDealer(d, row, count_threshold,
                                                  amount_threshold_multiplier))
        result == isin(d, "Selling Dealer",
                       {high_risk_dealers[i].key : i \in DOMAIN high_risk_dealers})
    IN  IF Len(high_risk_dealers) > 0
        THEN Outcome(d, Put(r, "high_claims_per_dealer",
                            StatsAndClaims(d, high_risk_dealers, result)),
                     StatsFrame(high_risk_dealers), "")
        ELSE Outcome(d, r, EmptyFrame, "")

(***************************************************************************)
(* detect_luxury_vehicle_patterns.  A text is a sequence of symbols: " "   *)
(* is the space and any other symbol stands for a run of characters with   *)
(* no space in it.                                                         *)
(***************************************************************************)
luxury_brands ==
    {<<"BENTLEY">>, <<"FERRARI">>, <<"LAMBORGHINI">>, <<"MCLAREN">>, <<"ROLLS-ROYCE">>,
     <<"ASTON", " ", "MARTIN">>, <<"PORSCHE">>, <<"MERCEDES-BENZ">>, <<"BMW">>,
     <<"AUDI">>, <<"MASERATI">>, <<"LAND", " ", "ROVER">>, <<"TESLA">>}

\* str.split(sep): the pieces between the separators, empty pieces kept
RECURSIVE split(_, _)
split(text, sep) ==
    IF \A i \in DOMAIN text : text[i] # sep THEN <<text>>
    ELSE LET n == CHOOSE i \in DOMAIN text :
                      text[i] = sep /\ \A j \in 1..(i - 1) : text[j] # sep
         IN  <<SubSeq(text, 1, n - 1)>> \o split(SubSeq(text, n + 1, Len(text)), sep)

\* .str[i] on a column of lists: element i (from 0), NaN when there is none
StrGet(list, i) == IF Len(list) > i THEN Cell(list[i + 1]) ELSE NaN

Brand(vehicle) == IF vehicle = NaN THEN NaN ELSE StrGet(split(Val(vehicle), " "), 1)

\* the extraction that writes the brand over the Vehicle column as well
WithBrand_overwrite(d) ==
    DataFrame(d.cols \cup {"Brand"},
              [i \in Index(d) |->
                  [c \in DOMAIN d.rows[i] |->
                      IF c \in {"Brand", "Vehicle"} THEN Brand(d.rows[i]["Vehicle"])
                      ELSE d.rows[i][c]]])

\* self.data['Brand'] = self.data['Vehicle'].str.split(' ').str[1]
WithBrand(d) ==
    DataFrame(d.cols \cup {"Brand"},
              [i \in Index(d) |->
                  [c \in DOMAIN d.rows[i] |->
                      IF c = "Brand" THEN Brand(d.rows[i]["Vehicle"]) ELSE d.rows[i][c]]])

\* the .str accessor refuses a column that holds no string: a column of a
\* non-empty table whose cells are all NaN is a float column
NoStrings(d, col) == Index(d) # {} /\ \A i \in Index(d) : d.rows[i][col] = NaN

LuxuryClaims(d) == isin(WithBrand(d), "Brand", luxury_brands)
LuxuryRows(d) ==
    {StatRow(WithBrand(d), "Brand", k) :
        k \in {Val(WithBrand(d).rows[i]["Brand"]) : i \in LuxuryClaims(d)}}
LuxuryOrders(d) ==
    IF {"Vehicle", "Claim #", "Paid Amount"} \ d.cols # {} \/ NoStrings(d, "Vehicle")
    THEN {<<>>}
    ELSE SortedByTotal(LuxuryRows(d))

detect_luxury_vehicle_patterns(d, r, luxury_stats) ==
    IF "Vehicle" \notin d.cols THEN Outcome(d, r, NoReturn, "KeyError")
    ELSE IF NoStrings(d, "Vehicle") THEN Outcome(d, r, NoReturn, "AttributeError")
    ELSE
    LET luxury_claims == LuxuryClaims(d)
    IN  IF Cardinality(luxury_claims) > 0
        THEN IF {"Claim #", "Paid Amount"} \ d.cols # {}
             THEN Outcome(WithBrand(d), r, NoReturn, "KeyError")
             ELSE Outcome(WithBrand(d),
                          Put(r, "luxury_vehicle_patterns",
                              StatsAndClaims(WithBrand(d), luxury_stats, luxury_claims)),
                          StatsFrame(luxury_stats), "")
        ELSE Outcome(WithBrand(d), r, EmptyFrame, "")

(***************************************************************************)
(* detect_coverage_type_patterns                                           *)
(***************************************************************************)
CoverageRows(d) == {StatRow(d, "Coverage", k) : k \in Keys(d, "Coverage")}
CoverageOrders(d) ==
    IF {"Coverage", "Claim #", "Paid Amount"} \ d.cols # {} THEN {<<>>}
    ELSE SortedByTotal(CoverageRows(d))

detect_coverage_type_patterns(d, r, coverage_stats) ==
    IF {"Coverage", "Claim #", "Paid Amount"} \ d.cols # {}
    THEN Outcome(d, r, NoReturn, "KeyError")
    ELSE Outcome(d, Put(r, "coverage_type_patterns", StatsFrame(coverage_stats)),
                 StatsFrame(coverage_stats), "")

(***************************************************************************)
(* generate_summary_report                                                 *)
(***************************************************************************)
NoSummary == [made |-> FALSE]

\* one section of summary['risk_patterns'], from the stored result f
Section(d, name, f) ==
    IF name \in {"multiple_claims_per_vin", "multiple_dealers_per_vin",
                 "repeated_claims_timeframe"}
    THEN [k \in {"vins_flagged", "claims_flagged"} |->
            IF k = "vins_flagged" THEN nunique(d, "VIN", f.idx) ELSE FrameLen(f)]
    ELSE IF name = "high_dollar_claims"
    THEN [k \in {"claims_flagged", "total_amount"} |->
            IF k = "claims_flagged" THEN FrameLen(f) ELSE SumOver(Paid(d), f.idx)]
    ELSE IF name = "high_claims_per_dealer"
    THEN [k \in {"dealers_flagged", "claims_flagged"} |->
            IF k = "dealers_flagged" THEN Len(f.stats) ELSE Cardinality(f.idx)]
    ELSE IF name = "luxury_vehicle_patterns"
    THEN [k \in {"brands_flagged", "claims_flagged"} |->
            IF k = "brands_flagged" THEN Len(f.stats) ELSE Cardinality(f.idx)]
    ELSE [k \in {"coverage_types"} |-> FrameLen(f)]

SummaryOf(d, r) ==
    [made |-> TRUE,
     total_claims |-> Len(d.rows),
     total_paid |-> SumOver(Paid(d), Index(d)),
     avg_claim_amount |->
        IF Index(d) = {} THEN NaN ELSE Cell(<<SumOver(Paid(d), Index(d)), Len(d.rows)>>),
     max_claim_amount |-> IF Index(d) = {} THEN NaN ELSE Cell(MaxOver(Paid(d), Index(d))),
     unique_vins |-> nunique(d, "VIN", Index(d)),
     unique_dealers |-> nunique(d, "Selling Dealer", Index(d)),
     risk_patterns |-> [name \in DOMAIN r |-> Section(d, name, r[name])]]

\* the report that reads every flag-based section without the 'in' test
generate_summary_report_unguarded(d, r) ==
    IF {"Paid Amount", "VIN", "Selling Dealer"} \ d.cols # {}
       \/ {"multiple_claims_per_vin", "high_dollar_claims", "multiple_dealers_per_vin",
           "repeated_claims_timeframe", "high_claims_per_dealer",
           "luxury_vehicle_patterns"} \ DOMAIN r # {}
    THEN <<NoSummary, "KeyError">>
    ELSE <<SummaryOf(d, r), "">>

\* returns the pair <<summary or NoSummary, escaped exception>>
generate_summary_report(d, r) ==
    IF {"Paid Amount", "VIN", "Selling Dealer"} \ d.cols # {}
    THEN <<NoSummary, "KeyError">>
    ELSE <<SummaryOf(d, r), "">>

(***************************************************************************)
(* The input files.  A raw cell of a date or amount column holds           *)
(* [parses, value]: the value read, and whether to_datetime / to_numeric   *)
(* can parse it.                                                           *)
(***************************************************************************)
Num(n) == Cell([parses |-> TRUE, value |-> n])
Unparsable == Cell([parses |-> FALSE, value |-> 0])

BaseRow ==
    [c \in Columns |->
        CASE c = "VIN" -> Cell("V1")
          [] c = "Paid Amount" -> Num(1)
          [] c = "Selling Dealer" -> Cell("D1")
          [] c = "Default Servicer" -> Cell("D3")
          [] c = "RO Date" -> Num(0)
          [] c = "Entry Date" -> Num(0)
          [] c = "Claim #" -> Cell("K")
          [] c = "Vehicle" -> Cell(<<"2018", " ", "HONDA", " ", "CIVIC">>)
          [] c = "Coverage" -> Cell("C1")
          [] OTHER -> NaN]

\* BaseRow with the cells of f in place of its own
With(f) == f @@ BaseRow

VinDateRows ==
    <<With(("RO Date" :> NaN)),
      With(("RO Date" :> Num(0))),
      With(("RO Date" :> Num(1))),
      With(("RO Date" :> Num(3))),
      With(("RO Date" :> Num(62))),
      With(("VIN" :> Cell("V2")) @@ ("RO Date" :> Num(0))),
      With(("VIN" :> Cell("V2")) @@ ("RO Date" :> Num(3))),
      With(("VIN" :> NaN))>>

VinDealerRows ==
    <<With(("VIN" :> Cell("V1")) @@ ("Selling Dealer" :> Cell("D1"))),
      With(("VIN" :> Cell("V1")) @@ ("Selling Dealer" :> Cell("D2"))),
      With(("VIN" :> Cell("V2")) @@ ("Selling Dealer" :> Cell("D1"))),
      With(("VIN" :> Cell("V2")) @@ ("Selling Dealer" :> Cell("D2"))),
      With(("VIN" :> NaN)),
      With(("Selling Dealer" :> NaN))>>

DealerPaidRows ==
    <<With(("Selling Dealer" :> Cell("D1")) @@ ("Paid Amount" :> Num(0))),
      With(("Selling Dealer" :> Cell("D1")) @@ ("Paid Amount" :> Num(2))),
      With(("Selling Dealer" :> Cell("D1")) @@ ("Paid Amount" :> Num(10))),
      With(("Selling Dealer" :> Cell("D2")) @@ ("Paid Amount" :> Num(0))),
      With(("Selling Dealer" :> Cell("D2")) @@ ("Paid Amount" :> Num(2))),
      With(("Selling Dealer" :> Cell("D2")) @@ ("Paid Amount" :> Num(10))),
      With(("Selling Dealer" :> Cell("D1")) @@ ("Paid Amount" :> Num(2)) @@ ("Claim #" :> NaN)),
      With(("Selling Dealer" :> Cell("D2")) @@ ("Paid Amount" :> Num(2)) @@ ("Claim #" :> NaN))>>

CoverageTypeRows ==
    <<With(("Coverage" :> NaN) @@ ("Paid Amount" :> Num(1))),
      With(("Coverage" :> NaN) @@ ("Paid Amount" :> Num(3))),
      With(("Coverage" :> Cell("C1")) @@ ("Paid Amount" :> Num(1))),
      With(("Coverage" :> Cell("C1")) @@ ("Paid Amount" :> Num(3))),
      With(("Coverage" :> Cell("C2")) @@ ("Paid Amount" :> Num(1))),
      With(("Coverage" :> Cell("C2")) @@ ("Paid Amount" :> Num(3))),
      With(("Coverage" :> Cell("C2")) @@ ("Claim #" :> NaN))>>

BmwX5 == <<"2020", " ", "BMW", " ", "X5">>
Tesla == <<"2019", " ", "TESLA">>

VehicleRows ==
    <<With(("Vehicle" :> Cell(BmwX5))),
      With(("Vehicle" :> Cell(<<"2021", " ", "ASTON", " ", "MARTIN", " ", "DB9">>))),
      With(("Vehicle" :> Cell(Tesla))),
      With(("Vehicle" :> Cell(<<"2018", " ", "HONDA", " ", "CIVIC">>))),
      With(("Vehicle" :> Cell(<<"BMW">>))),
      With(("Vehicle" :> NaN)),
      With(("Vehicle" :> Cell(BmwX5)) @@ ("Paid Amount" :> Num(3))),
      With(("Vehicle" :> Cell(Tesla)) @@ ("Paid Amount" :> Num(3)))>>

RawRows ==
    <<[c \in Columns |-> NaN],
      BaseRow,
      With(("Paid Amount" :> Unparsable)),
      With(("Paid Amount" :> NaN)),
      With(("Selling Dealer" :> NaN) @@ ("Default Servicer" :> NaN)),
      With(("RO Date" :> Unparsable)),
      With(("Entry Date" :> NaN))>>

ExcelFile(cols, rows) == [readable |-> TRUE, cols |-> cols, rows |-> rows]
Unreadable == [readable |-> FALSE, cols |-> {}, rows |-> <<>>]

\* The sheets of at most MaxRows rows drawn from the list R, one sheet for
\* each choice of rows whatever their order in the sheet: no detector reads
\* the position of a row (selections, groups and sorts go by value).
Sheets(R) ==
    UNION {{ExcelFile(RawColumns, [i \in 1..n |-> R[f[i]]]) :
              f \in {g \in [1..n -> DOMAIN R] : \A i \in 1..(n - 1) : g[i] <= g[i + 1]}} :
           n \in 0..MaxRows}

\* sheets that lack a column, or all of them
SchemaFiles ==
    {ExcelFile(RawColumns \ {c}, rows) :
        c \in RawColumns,
        rows \in {<<>>, <<BaseRow, BaseRow>>,
                  <<With(("Vehicle" :> Cell(BmwX5)))>>}}
    \cup {ExcelFile({}, <<>>), Unreadable}

\* six claims, one of them far above the others
SixClaims ==
    ExcelFile(RawColumns,
              [i \in 1..6 |->
                  IF i = 6 THEN With(("Paid Amount" :> Num(10)) @@ ("VIN" :> Cell("V2"))
                                     @@ ("Selling Dealer" :> Cell("D2")))
                  ELSE With(("Paid Amount" :> Num(0)) @@ ("VIN" :> NaN))])

\* sheets of one row more than MaxRows whose claims differ in the paid
\* amount only
PaidSheets ==
    {ExcelFile(RawColumns, [i \in 1..(MaxRows + 1) |-> With(("Paid Amount" :> Num(f[i])))]) :
        f \in {g \in [1..(MaxRows + 1) -> {0, 1, 10, 100}] :
                  \A i \in 1..MaxRows : g[i] <= g[i + 1]}}

\* tables for sequences of calls: two claims of one VIN at two dealers, one
\* of them on a luxury vehicle, and a claim of another VIN
SeqFiles ==
    LET A == BaseRow
        B == With(("Vehicle" :> Cell(BmwX5)) @@ ("Paid Amount" :> Num(3))
                  @@ ("Selling Dealer" :> Cell("D2")))
        C == With(("VIN" :> Cell("V2")) @@ ("Paid Amount" :> Num(10))
                  @@ ("Vehicle" :> Cell(Tesla)))
    IN  {ExcelFile(RawColumns, rows) :
            rows \in {<<>>, <<A, B>>, <<A, A, C>>, <<A, B, C>>, <<B, C, C>>}}
        \cup {ExcelFile(RawColumns \ {"Claim #"}, <<B>>)}

AllFiles ==
    Sheets(VinDateRows) \cup Sheets(VinDealerRows) \cup Sheets(DealerPaidRows)
    \cup Sheets(CoverageTypeRows) \cup Sheets(VehicleRows) \cup Sheets(RawRows)
    \cup SchemaFiles \cup {SixClaims} \cup PaidSheets

RunFiles ==
    Sheets(VinDealerRows) \cup Sheets(CoverageTypeRows) \cup Sheets(VehicleRows)
    \cup SchemaFiles \cup {SixClaims}

(***************************************************************************)
(* Parameters: the defaults of the detector methods and of the command     *)
(* line, and the values a caller passes.                                   *)
(***************************************************************************)
DefaultThreshold == 2
DefaultStdDevThreshold == <<2, 1>>
DefaultDaysThreshold == 30
DefaultCountThreshold == 3
DefaultAmountMultiplier == <<3, 2>>

\* the directory __init__ creates, and the default of --output
DefaultOutputDir == "risk_detection_results"

Options ==
    {"vin_threshold", "dollar_threshold", "days_threshold", "dealer_count_threshold",
     "dealer_amount_multiplier", "output"}

\* the default= of each add_argument
OptionDefault ==
    [vin_threshold |-> 2, dollar_threshold |-> <<2, 1>>, days_threshold |-> 30,
     dealer_count_threshold |-> 3, dealer_amount_multiplier |-> <<3, 2>>,
     output |-> DefaultOutputDir]

\* parser.parse_args(): the value given for an option, else its default
parse_args(given) ==
    [o \in Options |-> IF o \in DOMAIN given THEN given[o] ELSE OptionDefault[o]]

\* str(x): the text of a number
Str(x) == [text |-> x]

\* the command lines tried: no option, every threshold, one threshold, and
\* --output naming a directory that does not exist yet or one that does
CommandLines ==
    {<<>>,
     [vin_threshold |-> 3, dollar_threshold |-> <<3, 1>>, days_threshold |-> 15,
      dealer_count_threshold |-> 2, dealer_amount_multiplier |-> <<1, 1>>],
     [vin_threshold |-> 3],
     [output |-> "new_results"],
     [output |-> "old_results"]}

Thresholds == {1, 2, 3, 4}
StdDevThresholds == {<<0 - 1, 1>>, <<0, 1>>, <<1, 2>>, <<1, 1>>, <<2, 1>>}
DaysThresholds == {0, 1, 30}
CountThresholds == {2, 3, 5}
AmountMultipliers == {<<1, 1>>, <<3, 2>>, <<5, 1>>}

(***************************************************************************)
(* Steps.  Return records a call and moves the driver on: to next when the *)
(* call returned, to "raised" when an exception escaped it (no caller      *)
(* catches one).                                                           *)
(***************************************************************************)
CallRecord(name, a, e, v) == [name |-> name, args |-> a, error |-> e, ret |-> v]

\* to_csv / open(..., 'w') of a file in output_dir: OSError when that
\* directory does not exist
WriteError == IF output_dir \in dirs THEN "" ELSE "OSError"

\* A detector writes its CSV files after it has stored its result: the
\* flag-based detectors when they found something, the coverage-type
\* detector always.
Return(o, name, a, next) ==
    LET writes == o.error = ""
                  /\ (name = "detect_coverage_type_patterns" \/ FrameLen(o.ret) > 0)
        error == IF writes THEN WriteError ELSE o.error
        value == IF error = "" THEN o.ret ELSE NoReturn
    IN  /\ data' = o.data
        /\ results' = o.results
        /\ ret' = value
        /\ calls' = Append(calls, CallRecord(name, a, error, value))
        /\ pc' = IF error = "" THEN next ELSE "raised"

\* load_data that reports the failure and goes on with an empty table
load_data_swallowed(next) ==
    /\ calls' = Append(calls, CallRecord("load_data", <<>>,
                                         IF file.readable THEN "" ELSE "SystemExit",
                                         NoReturn))
    /\ data' = IF file.readable THEN _clean_data(DataFrame(file.cols, file.rows))
               ELSE DataFrame({}, <<>>)
    /\ pc' = next
    /\ UNCHANGED <<results, ret>>

\* load_data: read_excel, _clean_data; any failure prints and exits with 1
load_data(next) ==
    /\ calls' = Append(calls, CallRecord("load_data", <<>>,
                                         IF file.readable THEN "" ELSE "SystemExit",
                                         NoReturn))
    /\ IF file.readable
       THEN /\ data' = _clean_data(DataFrame(file.cols, file.rows))
            /\ pc' = next
       ELSE /\ data' = data
            /\ pc' = "exit1"
    /\ UNCHANGED <<results, ret>>

\* generate_summary_report writes summary_report.txt before it returns
SummaryStep(next) ==
    LET o == generate_summary_report(data, results)
        error == IF o[2] = "" THEN WriteError ELSE o[2]
    IN  /\ summary' = IF error = "" THEN o[1] ELSE NoSummary
        /\ calls' = Append(calls, CallRecord("generate_summary_report", <<>>, error, NoReturn))
        /\ pc' = IF error = "" THEN next ELSE "raised"
        /\ UNCHANGED <<data, results, ret>>

(***************************************************************************)
(* A caller of the RiskDetector methods (as test_risk_detector.py is):     *)
(* load_data first, then fuel calls of any method with any arguments.      *)
(***************************************************************************)
Ready == pc = "ready" /\ fuel > 0
Spend == fuel' = fuel - 1 /\ UNCHANGED <<file, args, environ, output_dir, dirs>>

LoadData ==
    /\ pc = "new"
    /\ load_data("ready")
    /\ UNCHANGED <<file, args, environ, summary, fuel, output_dir, dirs>>

MultipleClaimsPerVin ==
    /\ Ready
    /\ \E threshold \in Thresholds :
        /\ Spend
        /\ Return(detect_multiple_claims_per_vin(data, results, threshold),
                  "detect_multiple_claims_per_vin", <<threshold>>, "ready")
        /\ UNCHANGED summary

HighDollarClaims ==
    /\ Ready
    /\ \E std_dev_threshold \in StdDevThresholds :
        /\ Spend
        /\ Return(detect_high_dollar_claims(data, results, std_dev_threshold),
                  "detect_high_dollar_claims", <<std_dev_threshold>>, "ready")
        /\ UNCHANGED summary

MultipleDealersPerVin ==
    /\ Ready /\ Spend
    /\ Return(detect_multiple_dealers_per_vin(data, results),
              "detect_multiple_dealers_per_vin", <<>>, "ready")
    /\ UNCHANGED summary

RepeatedClaimsTimeframe ==
    /\ Ready
    /\ \E days_threshold \in DaysThresholds, sort \in SortChoices(data) :
        /\ Spend
        /\ Return(detect_repeated_claims_timeframe(data, results, days_threshold, sort),
                  "detect_repeated_claims_timeframe", <<days_threshold>>, "ready")
        /\ UNCHANGED summary

HighClaimsPerDealer ==
    /\ Ready
    /\ \E count_threshold \in CountThresholds, multiplier \in AmountMultipliers :
        /\ Spend
        /\ Return(detect_high_claims_per_dealer(data, results, count_threshold, multiplier),
                  "detect_high_claims_per_dealer", <<count_threshold, multiplier>>, "ready")
        /\ UNCHANGED summary

LuxuryVehiclePatterns ==
    /\ Ready
    /\ \E luxury_stats \in LuxuryOrders(data) :
        /\ Spend
        /\ Return(detect_luxury_vehicle_patterns(data, results, luxury_stats),
                  "detect_luxury_vehicle_patterns", <<>>, "ready")
        /\ UNCHANGED summary

CoverageTypePatterns ==
    /\ Ready
    /\ \E coverage_stats \in CoverageOrders(data) :
        /\ Spend
        /\ Return(detect_coverage_type_patterns(data, results, coverage_stats),
                  "detect_coverage_type_patterns", <<>>, "ready")
        /\ UNCHANGED summary

GenerateSummaryReport ==
    /\ Ready /\ Spend
    /\ SummaryStep("ready")

(***************************************************************************)
(* run_risk_detection.py: main() parses the options, exports the           *)
(* thresholds to os.environ and calls detect_high_risk.main(), which       *)
(* builds a RiskDetector (whose __init__ creates the default output        *)
(* directory), sets its output_dir to --output and calls                   *)
(* run_all_detections().  The steps of run_all_detections follow, one per  *)
(* statement.                                                              *)
(***************************************************************************)
Main ==
    \E given \in CommandLines :
        /\ pc = "shell"
        /\ args' = parse_args(given)
        /\ environ' =
             [VIN_THRESHOLD |-> Str(parse_args(given).vin_threshold),
              DOLLAR_THRESHOLD |-> Str(parse_args(given).dollar_threshold),
              DAYS_THRESHOLD |-> Str(parse_args(given).days_threshold),
              DEALER_COUNT_THRESHOLD |-> Str(parse_args(given).dealer_count_threshold),
              DEALER_AMOUNT_MULTIPLIER |-> Str(parse_args(given).dealer_amount_multiplier)]
        /\ data' = None
        /\ results' = <<>>
        /\ dirs' = dirs \cup {DefaultOutputDir}
        /\ output_dir' = parse_args(given).output
        /\ pc' = "run_all_detections"
        /\ UNCHANGED <<file, calls, ret, summary, fuel>>

Running(at) == pc = at /\ UNCHANGED <<file, args, environ, fuel, output_dir, dirs>>

RunLoadData ==
    /\ Running("run_all_detections")
    /\ IF data = None THEN load_data("detect_multiple_claims_per_vin")
       ELSE pc' = "detect_multiple_claims_per_vin" /\ UNCHANGED <<data, results, ret, calls>>
    /\ UNCHANGED summary

RunMultipleClaimsPerVin ==
    /\ Running("detect_multiple_claims_per_vin")
    /\ Return(detect_multiple_claims_per_vin(data, results, DefaultThreshold),
              "detect_multiple_claims_per_vin", <<DefaultThreshold>>,
              "detect_high_dollar_claims")
    /\ UNCHANGED summary

RunHighDollarClaims ==
    /\ Running("detect_high_dollar_claims")
    /\ Return(detect_high_dollar_claims(data, results, DefaultStdDevThreshold),
              "detect_high_dollar_claims", <<DefaultStdDevThreshold>>,
              "detect_multiple_dealers_per_vin")
    /\ UNCHANGED summary

RunMultipleDealersPerVin ==
    /\ Running("detect_multiple_dealers_per_vin")
    /\ Return(detect_multiple_dealers_per_vin(data, results),
              "detect_multiple_dealers_per_vin", <<>>, "detect_repeated_claims_timeframe")
    /\ UNCHANGED summary

RunRepeatedClaimsTimeframe ==
    /\ Running("detect_repeated_claims_timeframe")
    /\ \E sort \in SortChoices(data) :
        /\ Return(detect_repeated_claims_timeframe(data, results, DefaultDaysThreshold, sort),
                  "detect_repeated_claims_timeframe", <<DefaultDaysThreshold>>,
                  "detect_high_claims_per_dealer")
        /\ UNCHANGED summary

RunHighClaimsPerDealer ==
    /\ Running("detect_high_claims_per_dealer")
    /\ Return(detect_high_claims_per_dealer(data, results, DefaultCountThreshold,
                                            DefaultAmountMultiplier),
              "detect_high_claims_per_dealer",
              <<DefaultCountThreshold, DefaultAmountMultiplier>>,
              "detect_luxury_vehicle_patterns")
    /\ UNCHANGED summary

RunLuxuryVehiclePatterns ==
    /\ Running("detect_luxury_vehicle_patterns")
    /\ \E luxury_stats \in LuxuryOrders(data) :
        /\ Return(detect_luxury_vehicle_patterns(data, results, luxury_stats),
                  "detect_luxury_vehicle_patterns", <<>>, "detect_coverage_type_patterns")
        /\ UNCHANGED summary

RunCoverageTypePatterns ==
    /\ Running("detect_coverage_type_patterns")
    /\ \E coverage_stats \in CoverageOrders(data) :
        /\ Return(detect_coverage_type_patterns(data, results, coverage_stats),
                  "detect_coverage_type_patterns", <<>>, "generate_summary_report")
        /\ UNCHANGED summary

\* the report generated before the last detector has run
RunGenerateSummaryReport_early ==
    /\ Running("detect_coverage_type_patterns")
    /\ SummaryStep("done")

RunGenerateSummaryReport ==
    /\ Running("generate_summary_report")
    /\ SummaryStep("done")

(***************************************************************************)
(* Specifications.                                                         *)
(***************************************************************************)
\* the state after RiskDetector(file_path): no table, no results, the
\* default output directory
Constructed ==
    /\ output_dir = DefaultOutputDir
    /\ data = None
    /\ results = <<>>
    /\ calls = <<>>
    /\ ret = NoReturn
    /\ summary = NoSummary
    /\ args = parse_args(<<>>)
    /\ environ = <<>>

\* one method call on each input
Init ==
    /\ file \in AllFiles
    /\ Constructed
    /\ pc = "new"
    /\ fuel = 1
    /\ dirs = {DefaultOutputDir}

Next ==
    \/ LoadData
    \/ MultipleClaimsPerVin
    \/ HighDollarClaims
    \/ MultipleDealersPerVin
    \/ RepeatedClaimsTimeframe
    \/ HighClaimsPerDealer
    \/ LuxuryVehiclePatterns
    \/ CoverageTypePatterns
    \/ GenerateSummaryReport

Spec == Init /\ [][Next]_vars

\* sequences of MaxCalls method calls on one RiskDetector
InitSeq ==
    /\ file \in SeqFiles
    /\ Constructed
    /\ pc = "new"
    /\ fuel = MaxCalls
    /\ dirs = {DefaultOutputDir}

SpecSeq == InitSeq /\ [][Next]_vars

\* a run of the command line on each input
InitRun ==
    /\ file \in RunFiles
    /\ Constructed
    /\ pc = "shell"
    /\ fuel = 0
    /\ dirs = {"old_results"}

NextRun ==
    \/ Main
    \/ RunLoadData
    \/ RunMultipleClaimsPerVin
    \/ RunHighDollarClaims
    \/ RunMultipleDealersPerVin
    \/ RunRepeatedClaimsTimeframe
    \/ RunHighClaimsPerDealer
    \/ RunLuxuryVehiclePatterns
    \/ RunCoverageTypePatterns
    \/ RunGenerateSummaryReport

SpecRun == InitRun /\ [][NextRun]_vars

(***************************************************************************)
(* Properties.                                                             *)
(***************************************************************************)
Last == calls[Len(calls)]
\* the last call was name, and it returned
Returned(name) == calls # <<>> /\ Last.name = name /\ Last.error = ""

HasVin(i) == data.rows[i]["VIN"] # NaN
SameVin(i) == {j \in Index(data) : data.rows[j]["VIN"] = data.rows[i]["VIN"]}
PaidOf(i) == Val(data.rows[i]["Paid Amount"])
TotalPaid == SumOver([i \in Index(data) |-> PaidOf(i)], Index(data))

\* C1: detect_multiple_claims_per_vin(t) returns exactly the claims whose VIN
\* has at least t claims in the table (every claim of such a VIN, no claim of
\* another), and pd.DataFrame() when no VIN reaches t.
C1_MultipleClaimsExact ==
    Returned("detect_multiple_claims_per_vin") =>
        LET t == Last.args[1]
            expected == {i \in Index(data) : HasVin(i) /\ Cardinality(SameVin(i)) >= t}
        IN  /\ ret.idx = expected
            /\ expected = {} => ret = EmptyFrame

\* threshold 2 on a table with a VIN of two claims and a VIN of one
C1_Witness ==
    /\ Returned("detect_multiple_claims_per_vin")
    /\ Last.args[1] = 2
    /\ ret.idx # {}
    /\ \E i \in Index(data) \ ret.idx : HasVin(i)

Dated(i) == data.rows[i]["RO Date"] # NaN
DateOf(i) == Val(data.rows[i]["RO Date"])
\* a and b are neighbours in the date order of their VIN's dated claims
ConsecutiveDated(a, b) ==
    /\ a # b /\ Dated(a) /\ Dated(b) /\ DateOf(a) <= DateOf(b)
    /\ ~\E k \in SameVin(a) : Dated(k) /\ DateOf(a) < DateOf(k) /\ DateOf(k) < DateOf(b)

\* C2: detect_repeated_claims_timeframe(d) returns all claims of exactly the
\* VINs that have two claims, consecutive in date order, both dated and at
\* most d days apart; claims without a date do not stand in the way.
C2_RepeatedClaimsIff ==
    Returned("detect_repeated_claims_timeframe") =>
        LET days == Last.args[1]
        IN  ret.idx =
              {i \in Index(data) :
                  /\ HasVin(i)
                  /\ \E a, b \in SameVin(i) :
                        /\ ConsecutiveDated(a, b)
                        /\ (DateOf(b) - DateOf(a)) \div TicksPerDay <= days}

\* a flagged VIN one of whose claims has no date
C2_Witness ==
    /\ Returned("detect_repeated_claims_timeframe")
    /\ \E i \in ret.idx : ~Dated(i)

\* C4: detect_multiple_dealers_per_vin returns all claims of exactly the VINs
\* whose claims name more than one Selling Dealer.
C4_MultipleDealersExact ==
    Returned("detect_multiple_dealers_per_vin") =>
        ret.idx =
          {i \in Index(data) :
              /\ HasVin(i)
              /\ \E j \in SameVin(i) :
                    data.rows[j]["Selling Dealer"] # data.rows[i]["Selling Dealer"]}

\* a VIN with two dealers is returned, the claim of another VIN is not
C4_Witness ==
    /\ Returned("detect_multiple_dealers_per_vin")
    /\ ret.idx # {}
    /\ \E i \in Index(data) \ ret.idx : HasVin(i)

\* k1 <= k2 for two rationals with positive denominators
RatLeq(k1, k2) == k1[1] * k2[2] <= k2[1] * k1[2]
SqDev == SumOver([i \in Index(data) |->
                     (Len(data.rows) * PaidOf(i) - TotalPaid)
                     * (Len(data.rows) * PaidOf(i) - TotalPaid)], Index(data))
\* paid amount of row i strictly above mean + k * sample standard deviation,
\* by cases on the signs of k and of the deviation a / n of row i
StrictlyAbove(i, k) ==
    LET n == Len(data.rows)
        a == n * PaidOf(i) - TotalPaid
    IN  /\ n >= 2
        /\ IF k[1] >= 0
           THEN a > 0 /\ a * a * k[2] * k[2] * (n - 1) > k[1] * k[1] * SqDev
           ELSE a >= 0 \/ a * a * k[2] * k[2] * (n - 1) < k[1] * k[1] * SqDev

\* C5: detect_high_dollar_claims(k) returns only claims paid strictly more
\* than mean + k * sample standard deviation, and what it returns for k is
\* within what it returns for every smaller multiplier.
C5_HighDollarMonotone ==
    Returned("detect_high_dollar_claims") =>
        /\ \A i \in ret.idx : StrictlyAbove(i, Last.args[1])
        /\ \A k1 \in StdDevThresholds :
              RatLeq(k1, Last.args[1]) =>
                  ret.idx \subseteq detect_high_dollar_claims(data, <<>>, k1).ret.idx

\* a multiplier that returns some claims where a smaller one returns more
C5_Witness ==
    /\ Returned("detect_high_dollar_claims")
    /\ ret.idx # {}
    /\ \E k1 \in StdDevThresholds :
          /\ RatLeq(k1, Last.args[1])
          /\ detect_high_dollar_claims(data, <<>>, k1).ret.idx # ret.idx

DealerClaims(k) == {i \in Index(data) : data.rows[i]["Selling Dealer"] = Cell(k)}
DealerTotal(k) == SumOver([i \in Index(data) |-> PaidOf(i)], DealerClaims(k))

\* C3: detect_high_claims_per_dealer(c, m) puts a dealer in its statistics
\* exactly when the dealer has at least c claims or its average paid amount is
\* at least m times the average over all claims, and stores all claims of the
\* dealers it puts there.
C3_DealerIncludedIff ==
    Returned("detect_high_claims_per_dealer") =>
        LET c == Last.args[1]
            m == Last.args[2]
            included ==
                {k \in {Val(data.rows[i]["Selling Dealer"]) : i \in Index(data)} :
                    \/ Cardinality(DealerClaims(k)) >= c
                    \/ DealerTotal(k) * Len(data.rows) * m[2]
                         >= TotalPaid * m[1] * Cardinality(DealerClaims(k))}
        IN  /\ {ret.stats[n].key : n \in DOMAIN ret.stats} = included
            /\ included # {} =>
                  results["high_claims_per_dealer"].idx
                    = UNION {DealerClaims(k) : k \in included}

\* the rows of the statistics table st that stand for the group of the cell c
GroupsOf(st, c) == {n \in DOMAIN st : Cell(st[n].key) = c}

\* C9: the groups of the coverage-type and of the luxury-brand statistics
\* partition the detector's input: every claim of the table (for the luxury
\* statistics: every claim of a luxury brand) is in exactly one group.
C9_GroupsPartitionInput ==
    /\ Returned("detect_coverage_type_patterns") =>
          \A i \in Index(data) :
              Cardinality(GroupsOf(ret.stats, data.rows[i]["Coverage"])) = 1
    /\ Returned("detect_luxury_vehicle_patterns") =>
          \A i \in Index(data) :
              (data.rows[i]["Brand"] # NaN /\ Val(data.rows[i]["Brand"]) \in luxury_brands)
                  => Cardinality(GroupsOf(ret.stats, data.rows[i]["Brand"])) = 1

\* the statistics table st, grouped by column col, adds up and is ordered
TotalsAndOrder(st, col) ==
    /\ \A n \in DOMAIN st :
          LET g == {i \in Index(data) : data.rows[i][col] = Cell(st[n].key)}
          IN  /\ g # {}
              /\ st[n].total_paid = SumOver([i \in Index(data) |-> PaidOf(i)], g)
              /\ \E i \in g : st[n].max_paid = PaidOf(i)
              /\ \A i \in g : PaidOf(i) <= st[n].max_paid
    /\ \A n, m \in DOMAIN st : n < m => st[n].total_paid >= st[m].total_paid

\* C10: in the coverage-type and luxury-brand statistics every row's
\* total_paid is the sum and its max_paid the largest of the paid amounts of
\* the claims of its group, and the rows come by total_paid descending.
C10_TotalsMaxAndOrder ==
    /\ Returned("detect_coverage_type_patterns") => TotalsAndOrder(ret.stats, "Coverage")
    /\ Returned("detect_luxury_vehicle_patterns") => TotalsAndOrder(ret.stats, "Brand")

\* two coverage types with different totals, one of them with two claims of
\* different amounts
C10_Witness ==
    /\ Returned("detect_coverage_type_patterns")
    /\ Len(ret.stats) = 2
    /\ ret.stats[1].total_paid > ret.stats[2].total_paid
    /\ \E n \in DOMAIN ret.stats : ret.stats[n].max_paid < ret.stats[n].total_paid

Detectors ==
    {"detect_multiple_claims_per_vin", "detect_high_dollar_claims",
     "detect_multiple_dealers_per_vin", "detect_repeated_claims_timeframe",
     "detect_high_claims_per_dealer", "detect_luxury_vehicle_patterns",
     "detect_coverage_type_patterns"}
\* the key of self.results and of risk_patterns of each detector
KeyOf ==
    [detect_multiple_claims_per_vin |-> "multiple_claims_per_vin",
     detect_high_dollar_claims |-> "high_dollar_claims",
     detect_multiple_dealers_per_vin |-> "multiple_dealers_per_vin",
     detect_repeated_claims_timeframe |-> "repeated_claims_timeframe",
     detect_high_claims_per_dealer |-> "high_claims_per_dealer",
     detect_luxury_vehicle_patterns |-> "luxury_vehicle_patterns",
     detect_coverage_type_patterns |-> "coverage_type_patterns"]
\* some call so far was a call of name
Called(name) == \E n \in DOMAIN calls : calls[n].name = name

\* C6: in a run, generate_summary_report does not raise whichever detectors
\* found nothing; risk_patterns has the section of a flag-based detector
\* exactly when that detector returned a non-empty result, and always has the
\* coverage-type section.
C6_SummarySections ==
    /\ (calls # <<>> /\ Last.name = "generate_summary_report") =>
          Last.error = "" /\ summary.made
    /\ pc = "done" =>
          /\ \A n \in DOMAIN calls :
                calls[n].name \in Detectors \ {"detect_coverage_type_patterns"} =>
                    (KeyOf[calls[n].name] \in DOMAIN summary.risk_patterns
                        <=> FrameLen(calls[n].ret) > 0)
          /\ "coverage_type_patterns" \in DOMAIN summary.risk_patterns

\* a report with some flag-based sections present and others omitted
C6_Witness ==
    /\ pc = "done"
    /\ "multiple_claims_per_vin" \in DOMAIN summary.risk_patterns
    /\ "multiple_dealers_per_vin" \notin DOMAIN summary.risk_patterns
    /\ "high_dollar_claims" \notin DOMAIN summary.risk_patterns

\* C7: in run_all_detections a detector that raises does not abort the
\* others: when the run has ended, every detector has been called and the
\* summary report has been generated.
C7_FailureDoesNotAbort ==
    pc = "raised" =>
        /\ \A name \in Detectors : Called(name)
        /\ Called("generate_summary_report")

\* C8: each detector is executed with the threshold the command line gave
\* (the default where the option was not given).
C8_ThresholdsFromCommandLine ==
    \A n \in DOMAIN calls :
        LET c == calls[n]
        IN  c.error = "" =>
            /\ c.name = "detect_multiple_claims_per_vin" => c.args = <<args.vin_threshold>>
            /\ c.name = "detect_high_dollar_claims" => c.args = <<args.dollar_threshold>>
            /\ c.name = "detect_repeated_claims_timeframe" => c.args = <<args.days_threshold>>
            /\ c.name = "detect_high_claims_per_dealer" =>
                  c.args = <<args.dealer_count_threshold, args.dealer_amount_multiplier>>

(***************************************************************************)
(* Degenerate input, schema and load failures.                             *)
(***************************************************************************)
Loaded == data.tag = "DataFrame"

\* C11: on a table of zero rows (with every column of the schema) no call
\* raises, every detector returns an empty frame, and the summary report's
\* total claims, total / average / maximum paid, unique VINs and unique
\* dealers are all zero.
C11_EmptyTableZeroReport ==
    (Loaded /\ Index(data) = {} /\ RawColumns \subseteq data.cols /\ calls # <<>>) =>
        /\ Last.error = ""
        /\ Last.name \in Detectors => FrameLen(ret) = 0
        /\ Last.name = "generate_summary_report" =>
              /\ summary.made
              /\ summary.total_claims = 0
              /\ summary.total_paid = 0
              /\ summary.avg_claim_amount # NaN /\ Val(summary.avg_claim_amount)[1] = 0
              /\ summary.max_claim_amount # NaN /\ Val(summary.max_claim_amount) = 0
              /\ summary.unique_vins = 0
              /\ summary.unique_dealers = 0

\* the columns each detector reads
Needs ==
    [detect_multiple_claims_per_vin |-> {"VIN"},
     detect_high_dollar_claims |-> {"Paid Amount"},
     detect_multiple_dealers_per_vin |-> {"VIN", "Selling Dealer"},
     detect_repeated_claims_timeframe |-> {"VIN", "RO Date"},
     detect_high_claims_per_dealer |-> {"Selling Dealer", "Claim #", "Paid Amount"},
     detect_luxury_vehicle_patterns |-> {"Vehicle", "Claim #", "Paid Amount"},
     detect_coverage_type_patterns |-> {"Coverage", "Claim #", "Paid Amount"}]

\* C12: a detector called on a table that lacks a column it reads ends with
\* the explicit condition "unsupported dataset schema", not with a lookup
\* error from inside its grouping or aggregation.
C12_SchemaConditionExplicit ==
    (calls # <<>> /\ Last.name \in Detectors /\ Needs[Last.name] \ data.cols # {}) =>
        Last.error = "UnsupportedSchema"

\* the statistics table st, grouped by column col, counts the rows of each group
CountsRows(st, col) ==
    \A n \in DOMAIN st :
        st[n].claim_count
          = Cardinality({i \in Index(data) : data.rows[i][col] = Cell(st[n].key)})

\* C19: claim_count of a group of the per-dealer, luxury-brand and
\* coverage-type statistics is the number of rows of the group, and a dealer
\* with at least count_threshold claims is in the per-dealer statistics, also
\* when some of its claims have no Claim #.
C19_ClaimCountIsGroupSize ==
    /\ Returned("detect_high_claims_per_dealer") =>
          /\ CountsRows(ret.stats, "Selling Dealer")
          /\ \A i \in Index(data) :
                Cardinality(DealerClaims(Val(data.rows[i]["Selling Dealer"]))) >= Last.args[1]
                    => GroupsOf(ret.stats, data.rows[i]["Selling Dealer"]) # {}
    /\ Returned("detect_luxury_vehicle_patterns") => CountsRows(ret.stats, "Brand")
    /\ Returned("detect_coverage_type_patterns") => CountsRows(ret.stats, "Coverage")

\* C13: when loading the input fails, the failure ends the run with exit
\* status 1: no detector is called and no summary report is produced.
C13_LoadFailureAborts ==
    /\ (\E n \in DOMAIN calls : calls[n].name = "load_data" /\ calls[n].error # "") =>
          /\ pc = "exit1"
          /\ \A name \in Detectors : ~Called(name)
          /\ ~Called("generate_summary_report")
          /\ ~summary.made
    /\ (~file.readable /\ Called("load_data")) => pc = "exit1"

\* a run on a file that cannot be read has ended
C13_Witness ==
    /\ ~file.readable
    /\ pc = "exit1"
    /\ Last.name = "load_data"

\* the rows of the sheet that are not empty across every column
Kept == SelectSeq(file.rows, LAMBDA r : \E c \in file.cols : r[c] # NaN)
Parses(c) == c # NaN /\ Val(c).parses

\* C14: the cleaned table holds the rows of the sheet that are not empty
\* across every column, in order; each has a Paid Amount (0 where the raw
\* value was absent or did not parse), a Selling Dealer and a Default Servicer
\* ('Unknown' where absent), and a date that did not parse is absent, not 0.
C14_CleanedTable ==
    Loaded =>
        /\ Len(data.rows) = Len(Kept)
        /\ \A i \in Index(data) :
              /\ "Paid Amount" \in data.cols =>
                    data.rows[i]["Paid Amount"]
                      = IF Parses(Kept[i]["Paid Amount"])
                        THEN Cell(Val(Kept[i]["Paid Amount"]).value) ELSE Cell(0)
              /\ \A c \in {"Selling Dealer", "Default Servicer"} \cap data.cols :
                    data.rows[i][c] = IF Kept[i][c] = NaN THEN Cell("Unknown") ELSE Kept[i][c]
              /\ \A c \in {"RO Date", "Entry Date"} \cap data.cols :
                    data.rows[i][c]
                      = IF Parses(Kept[i][c]) THEN Cell(Val(Kept[i][c]).value) ELSE NaN

\* a sheet with an empty row, an amount and a date that do not parse
C14_Witness ==
    /\ Loaded
    /\ Len(data.rows) < Len(file.rows)
    /\ \E i \in Index(data) :
          Kept[i]["Paid Amount"] # NaN /\ ~Parses(Kept[i]["Paid Amount"])
    /\ \E i \in Index(data) : Kept[i]["RO Date"] # NaN /\ ~Parses(Kept[i]["RO Date"])

(***************************************************************************)
(* Sequences of calls on one RiskDetector.                                 *)
(***************************************************************************)
\* the table as cleaning left it
Fresh == _clean_data(DataFrame(file.cols, file.rows))
CallsOf(name) == {n \in DOMAIN calls : calls[n].name = name}

\* C15: after any sequence of calls the table has the rows and, in every
\* column of the cleaned table, the values it had after cleaning; the one
\* change is the Brand column of detect_luxury_vehicle_patterns, with the
\* same values however often that detector has run.
C15_TableReadOnly ==
    Loaded =>
        /\ Len(data.rows) = Len(Fresh.rows)
        /\ \A i \in Index(data) : \A c \in Fresh.cols : data.rows[i][c] = Fresh.rows[i][c]
        /\ data.cols \ {"Brand"} = Fresh.cols
        /\ "Brand" \in data.cols =>
              /\ Called("detect_luxury_vehicle_patterns")
              /\ \A i \in Index(data) :
                    data.rows[i]["Brand"] = Brand(Fresh.rows[i]["Vehicle"])

\* the luxury detector has run twice, after which the table has its Brand
C15_Witness ==
    /\ Cardinality(CallsOf("detect_luxury_vehicle_patterns")) >= 2
    /\ "Brand" \in data.cols
    /\ \E i \in Index(data) : data.rows[i]["Brand"] # NaN

\* the outcome o flags what the last call flagged
SameFlags(o) ==
    /\ o.error = Last.error
    /\ o.ret.idx = Last.ret.idx
    /\ {o.ret.stats[n] : n \in DOMAIN o.ret.stats}
         = {Last.ret.stats[n] : n \in DOMAIN Last.ret.stats}

\* C16: what a detector flags is what it flags when called first on the
\* cleaned table with the same arguments, whichever calls came before it and
\* whichever order the sorts inside it left equal keys in.
C16_DetectorsIndependent ==
    (calls # <<>> /\ Last.name \in Detectors) =>
        LET a == Last.args
        IN  /\ Last.name = "detect_multiple_claims_per_vin" =>
                  SameFlags(detect_multiple_claims_per_vin(Fresh, <<>>, a[1]))
            /\ Last.name = "detect_high_dollar_claims" =>
                  SameFlags(detect_high_dollar_claims(Fresh, <<>>, a[1]))
            /\ Last.name = "detect_multiple_dealers_per_vin" =>
                  SameFlags(detect_multiple_dealers_per_vin(Fresh, <<>>))
            /\ Last.name = "detect_repeated_claims_timeframe" =>
                  \A sort \in SortChoices(Fresh) :
                      SameFlags(detect_repeated_claims_timeframe(Fresh, <<>>, a[1], sort))
            /\ Last.name = "detect_high_claims_per_dealer" =>
                  SameFlags(detect_high_claims_per_dealer(Fresh, <<>>, a[1], a[2]))
            /\ Last.name = "detect_luxury_vehicle_patterns" =>
                  \A luxury_stats \in LuxuryOrders(Fresh) :
                      SameFlags(detect_luxury_vehicle_patterns(Fresh, <<>>, luxury_stats))
            /\ Last.name = "detect_coverage_type_patterns" =>
                  \A coverage_stats \in CoverageOrders(Fresh) :
                      SameFlags(detect_coverage_type_patterns(Fresh, <<>>, coverage_stats))

\* a detector that flags claims after another detector has stored its own
\* and the luxury detector has added the Brand column
C16_Witness ==
    /\ Len(calls) >= 3
    /\ Last.name \in Detectors \ {"detect_luxury_vehicle_patterns"}
    /\ Last.error = ""
    /\ Last.ret.idx # {}
    /\ "Brand" \in data.cols \/ DOMAIN results \ {KeyOf[Last.name]} # {}

\* the most recent call of name
LastCallOf(name) == calls[CHOOSE n \in CallsOf(name) : \A m \in CallsOf(name) : m <= n]

\* C20: the stored result of a flag-based detector is that of its most recent
\* call: it is there exactly when that call returned a non-empty frame, and
\* so is the detector's section of a summary generated next.
C20_StoredResultIsLatest ==
    \A name \in Detectors \ {"detect_coverage_type_patterns"} :
        (CallsOf(name) # {} /\ LastCallOf(name).error = "") =>
            /\ KeyOf[name] \in DOMAIN results <=> FrameLen(LastCallOf(name).ret) > 0
            /\ (summary.made /\ Last.name = "generate_summary_report") =>
                  (KeyOf[name] \in DOMAIN summary.risk_patterns
                      <=> FrameLen(LastCallOf(name).ret) > 0)

(***************************************************************************)
(* The summary report and the order of a run.                              *)
(***************************************************************************)
\* the distinct values of column col among the rows S
Distinct(col, S) == {data.rows[i][col] : i \in S} \ {NaN}

\* C17: the report's total_claims is the number of rows of the table,
\* total_paid the sum of their paid amounts, unique_vins and unique_dealers
\* the numbers of distinct VINs and Selling Dealers; a section's vins_flagged
\* and claims_flagged are the numbers of distinct VINs and of rows of the
\* detector's stored result.
C17_SummaryCounts ==
    pc = "done" =>
        LET rp == summary.risk_patterns
        IN  /\ summary.total_claims = Len(data.rows)
            /\ summary.total_paid = TotalPaid
            /\ summary.unique_vins = Cardinality(Distinct("VIN", Index(data)))
            /\ summary.unique_dealers = Cardinality(Distinct("Selling Dealer", Index(data)))
            /\ \A k \in DOMAIN rp \cap {"multiple_claims_per_vin", "multiple_dealers_per_vin",
                                        "repeated_claims_timeframe"} :
                  /\ rp[k].vins_flagged = Cardinality(Distinct("VIN", results[k].idx))
                  /\ rp[k].claims_flagged = Cardinality(results[k].idx)
            /\ \A k \in DOMAIN rp \cap {"high_dollar_claims", "high_claims_per_dealer",
                                        "luxury_vehicle_patterns"} :
                  rp[k].claims_flagged = Cardinality(results[k].idx)

\* a report on a table of two VINs, one of them flagged with two claims
C17_Witness ==
    /\ pc = "done"
    /\ summary.unique_vins = 2
    /\ "multiple_claims_per_vin" \in DOMAIN summary.risk_patterns
    /\ summary.risk_patterns["multiple_claims_per_vin"].vins_flagged = 1
    /\ summary.risk_patterns["multiple_claims_per_vin"].claims_flagged = 2
    /\ summary.total_claims > 2

\* the calls of run_all_detections in the order of its statements
RunOrder ==
    <<"load_data", "detect_multiple_claims_per_vin", "detect_high_dollar_claims",
      "detect_multiple_dealers_per_vin", "detect_repeated_claims_timeframe",
      "detect_high_claims_per_dealer", "detect_luxury_vehicle_patterns",
      "detect_coverage_type_patterns", "generate_summary_report">>

\* C18: a run loads the table first and once, then calls the seven detectors
\* in order, and generates the summary report only after all seven returned.
C18_RunOrder ==
    /\ Len(calls) <= Len(RunOrder)
    /\ \A n \in DOMAIN calls :
          /\ calls[n].name = RunOrder[n]
          /\ n < Len(calls) => calls[n].error = ""
    /\ summary.made => Len(calls) = Len(RunOrder)

\* a run that went through to the report
C18_Witness ==
    /\ pc = "done"
    /\ Len(calls) = Len(RunOrder)
    /\ summary.made

(***************************************************************************)
(* The output directory.                                                   *)
(***************************************************************************)
\* C21: no detector and no summary ever writes into a directory that does
\* not exist: whatever --output names, the directory is there before the
\* first result file is written.
C21_OutputDirExists ==
    \A n \in DOMAIN calls : calls[n].error # "OSError"

(***************************************************************************)
(* Relations between the detectors.                                        *)
(***************************************************************************)
\* C22: every claim returned by detect_multiple_dealers_per_vin and by
\* detect_repeated_claims_timeframe(d) belongs to a VIN of at least two
\* claims, and is returned by detect_multiple_claims_per_vin(2).
C22_FlaggedVinsHaveTwoClaims ==
    (\/ Returned("detect_multiple_dealers_per_vin")
     \/ Returned("detect_repeated_claims_timeframe")) =>
        /\ \A i \in ret.idx : HasVin(i) /\ Cardinality(SameVin(i)) >= 2
        /\ ret.idx \subseteq detect_multiple_claims_per_vin(data, <<>>, 2).ret.idx

\* a VIN with two dealers is returned and another VIN of two claims is not
C22_Witness ==
    /\ Returned("detect_multiple_dealers_per_vin")
    /\ ret.idx # {}
    /\ ret.idx # detect_multiple_claims_per_vin(data, <<>>, 2).ret.idx

\* C23: detect_repeated_claims_timeframe(d) returns all claims of exactly the
\* VINs that have two distinct claims, adjacent in date order or not, both
\* dated and at most d days apart, wherever the claims without a date are.
C23_AllPairsEquivalent ==
    Returned("detect_repeated_claims_timeframe") =>
        ret.idx =
          {i \in Index(data) :
              /\ HasVin(i)
              /\ \E a, b \in SameVin(i) :
                    /\ a # b /\ Dated(a) /\ Dated(b) /\ DateOf(a) <= DateOf(b)
                    /\ (DateOf(b) - DateOf(a)) \div TicksPerDay <= Last.args[1]}

\* a flagged VIN whose first two claims in date order are too far apart, and
\* which has a claim without a date
C23_Witness ==
    /\ Returned("detect_repeated_claims_timeframe")
    /\ \E i \in ret.idx :
          /\ \E j \in SameVin(i) : ~Dated(j)
          /\ \E a, b \in SameVin(i) :
                /\ ConsecutiveDated(a, b)
                /\ \A k \in SameVin(i) : Dated(k) => DateOf(a) <= DateOf(k)
                /\ (DateOf(b) - DateOf(a)) \div TicksPerDay > Last.args[1]

\* C24: with std_dev_threshold 2.0, detect_high_dollar_claims returns
\* pd.DataFrame() for every table of at most 5 rows, and does not raise.
C24_SmallTablesNeverFlagged ==
    (/\ calls # <<>>
     /\ Last.name = "detect_high_dollar_claims"
     /\ Last.args = <<<<2, 1>>>>
     /\ "Paid Amount" \in data.cols
     /\ Len(data.rows) <= 5) =>
        /\ Last.error = ""
        /\ ret = EmptyFrame

\* five claims, one paid far more than the others: nothing is flagged at 2.0
\* where 1.0 flags the large claim
C24_Witness ==
    /\ Returned("detect_high_dollar_claims")
    /\ Last.args = <<<<2, 1>>>>
    /\ Len(data.rows) = 5
    /\ ret = EmptyFrame
    /\ detect_high_dollar_claims(data, <<>>, <<1, 1>>).ret.idx # {}

\* the Vehicle text of row i is '<year> <brand> <model>'
YearBrandModel(i, brand) ==
    /\ data.rows[i]["Vehicle"] # NaN
    /\ LET v == Val(data.rows[i]["Vehicle"])
       IN  /\ Len(v) = Len(brand) + 4
           /\ v[1] # " " /\ v[2] = " "
           /\ SubSeq(v, 3, 2 + Len(brand)) = brand
           /\ v[Len(v) - 1] = " " /\ v[Len(v)] # " "

\* C25: after detect_luxury_vehicle_patterns, every claim whose Vehicle is
\* '<year> <brand> <model>' for a brand of the list, two-word brands
\* included, is among the stored luxury claims under that brand, and so is
\* every claim whose derived brand is in the list, whatever it paid.
C25_EveryLuxuryBrandReachable ==
    (calls # <<>> /\ Last.name = "detect_luxury_vehicle_patterns" /\ Last.error = "") =>
        \A i \in Index(data) :
            /\ \A brand \in luxury_brands :
                  YearBrandModel(i, brand) =>
                      /\ "luxury_vehicle_patterns" \in DOMAIN results
                      /\ i \in results["luxury_vehicle_patterns"].idx
                      /\ data.rows[i]["Brand"] = Cell(brand)
            /\ (data.rows[i]["Brand"] # NaN /\ Val(data.rows[i]["Brand"]) \in luxury_brands) =>
                  /\ "luxury_vehicle_patterns" \in DOMAIN results
                  /\ i \in results["luxury_vehicle_patterns"].idx

====
